---- MODULE Spec2Model ----
(***************************************************************************)
(* A model of the PulseTechX content server (src/server.js and the three   *)
(* mongoose models).  The document store, the local uploads directory and  *)
(* the asset host are state; every request is a process that moves from    *)
(* one await of its handler to the next, so the handlers of requests in    *)
(* flight interleave exactly at their awaits.                              *)
(*                                                                         *)
(* Strings are sequences of one-character strings.  A body value is a      *)
(* tagged record: Str(s) for a string, Arr for a value that is no string   *)
(* (what multer builds for a repeated field name, or a JSON body carries). *)
(* A field that the body does not carry is absent from the body's DOMAIN.  *)
(* The read-only list endpoints and the health check are not modelled.     *)
(***************************************************************************)
EXTENDS Integers, Sequences, FiniteSets, TLC

\* ------------------------------------------------------------------------
\* Bounds of the model
\* ------------------------------------------------------------------------
\* requests received in one behaviour of the whole server (Spec)
MaxReqs == 2
\* requests received in one behaviour of one entity's endpoints
MaxEntityReqs == 3
\* requests received in one behaviour of pairs of flagged creates
MaxRaceReqs == 4
\* requests received in one behaviour of requests served one after another
MaxSeqReqs == 4
\* the last reading of the clock (Date.now()) a behaviour may take
MaxClock == 3

\* ------------------------------------------------------------------------
\* JavaScript strings and values
\* ------------------------------------------------------------------------
Str(s) == [t |-> "string", s |-> s]
Arr == [t |-> "array"]
Undef == [t |-> "undefined"]

\* data[field]
Get(data, field) == IF field \in DOMAIN data THEN data[field] ELSE Undef

\* !v
Falsy(v) == v.t = "undefined" \/ (v.t = "string" /\ v.s = <<>>)

IsSpace(c) == c = " "

RECURSIVE TrimStart(_)
TrimStart(s) == IF s /= <<>> /\ IsSpace(Head(s)) THEN TrimStart(Tail(s)) ELSE s

RECURSIVE TrimEnd(_)
TrimEnd(s) ==
  IF s /= <<>> /\ IsSpace(s[Len(s)]) THEN TrimEnd(SubSeq(s, 1, Len(s) - 1)) ELSE s

\* String.prototype.trim
Trim(s) == TrimEnd(TrimStart(s))

LowerChar(c) == CASE c = "A" -> "a" [] c = "B" -> "b" [] OTHER -> c

\* String.prototype.toLowerCase
ToLowerCase(s) == [i \in 1..Len(s) |-> LowerChar(s[i])]

\* \w of a JavaScript regular expression
IsWord(c) == c \in {"a", "b", "A", "B", "_", "0", "1", "2", "3", "4", "5", "6", "7", "8", "9"}

IsHyphen(c) == c = "-"
SlugChar(c) == IsWord(c) \/ IsSpace(c) \/ IsHyphen(c)

\* s.replace(/[^\w\s-]/g, '')
RECURSIVE StripNonSlug(_)
StripNonSlug(s) ==
  IF s = <<>> THEN <<>>
  ELSE IF SlugChar(Head(s)) THEN <<Head(s)>> \o StripNonSlug(Tail(s))
       ELSE StripNonSlug(Tail(s))

\* s.replace(/\s+/g, '-')
RECURSIVE HyphenateSpaces(_)
HyphenateSpaces(s) ==
  IF s = <<>> THEN <<>>
  ELSE IF IsSpace(Head(s))
       THEN IF Len(s) > 1 /\ IsSpace(s[2]) THEN HyphenateSpaces(Tail(s))
            ELSE <<"-">> \o HyphenateSpaces(Tail(s))
       ELSE <<Head(s)>> \o HyphenateSpaces(Tail(s))

\* s.replace(/-+/g, '-')
RECURSIVE CollapseHyphens(_)
CollapseHyphens(s) ==
  IF s = <<>> THEN <<>>
  ELSE IF IsHyphen(Head(s)) /\ Len(s) > 1 /\ IsHyphen(s[2]) THEN CollapseHyphens(Tail(s))
       ELSE <<Head(s)>> \o CollapseHyphens(Tail(s))

DigitChar(d) ==
  CASE d = 0 -> "0" [] d = 1 -> "1" [] d = 2 -> "2" [] d = 3 -> "3" [] d = 4 -> "4"
    [] d = 5 -> "5" [] d = 6 -> "6" [] d = 7 -> "7" [] d = 8 -> "8" [] d = 9 -> "9"

\* `${n}` of a non-negative integer
RECURSIVE NumToString(_)
NumToString(n) ==
  IF n < 10 THEN <<DigitChar(n)>> ELSE NumToString(n \div 10) \o <<DigitChar(n % 10)>>

\* the slug the collection's pre-save hook derives from the title
Slugify(title) ==
  CollapseHyphens(HyphenateSpaces(StripNonSlug(Trim(ToLowerCase(title)))))

\* the slug the create handlers pass to the model:
\* req.body.slug?.trim() || req.body.title.toLowerCase().replace(/\s+/g, '-')
HandlerSlug(body) ==
  LET given == IF Get(body, "slug").t = "string" THEN Trim(body.slug.s) ELSE <<>> IN
  IF given /= <<>> THEN given ELSE HyphenateSpaces(ToLowerCase(body.title.s))

\* ------------------------------------------------------------------------
\* validateInput: the outcome of the forEach over the required fields.
\* threw: a truthy value that is no string has no trim method (TypeError).
\* ------------------------------------------------------------------------
FieldMissing(v) == Falsy(v) \/ Trim(v.s) = <<>>

RECURSIVE validateInput(_, _)
validateInput(data, requiredFields) ==
  IF requiredFields = <<>> THEN [threw |-> FALSE, errors |-> <<>>]
  ELSE LET field == Head(requiredFields)
           v == Get(data, field)
       IN  IF ~Falsy(v) /\ v.t /= "string" THEN [threw |-> TRUE, errors |-> <<>>]
           ELSE LET rest == validateInput(data, Tail(requiredFields))
                    here == IF FieldMissing(v) THEN <<field>> ELSE <<>>
                IN  [threw |-> rest.threw,
                     errors |-> IF rest.threw THEN <<>> ELSE here \o rest.errors]

PromptRequired == <<"title", "promptText", "aiModel", "industry", "topic">>
BlogRequired == <<"title", "excerpt", "content", "category">>
CollectionRequired == <<"title", "description", "category">>

\* ------------------------------------------------------------------------
\* The admin gate
\* ------------------------------------------------------------------------
\* process.env.ADMIN_SECRET
AdminSecret == <<"k", "e", "y">>

LengthOnlyGate(adminKey) == ~Falsy(adminKey) /\ Len(adminKey.s) = Len(AdminSecret)
\* isValid of verifyAdmin; a header is a string or undefined
IsValidKey(adminKey) ==
  ~Falsy(adminKey) /\ Len(adminKey.s) = Len(AdminSecret) /\ adminKey.s = AdminSecret

\* ------------------------------------------------------------------------
\* State
\* ------------------------------------------------------------------------
Slots == {1, 2}

VARIABLES
  prompts,      \* the Prompt collection: a set of documents
  blogs,        \* the Blog collection
  collections,  \* the Collection collection
  staged,       \* files in the uploads directory, named by the request that staged them
  hosted,       \* number of assets the asset host has stored
  now,          \* the last reading of Date.now()
  nextId,       \* the next ObjectId the driver generates
  nreq,         \* requests received so far
  pc,           \* per request in flight: the await its handler is suspended at
  req,          \* per slot: the request
  resp,         \* per slot: the response sent
  loc,          \* per slot: the handler's local variables
  fx,           \* per slot: what the request has changed so far (doc, file, host)
  copied,       \* per prompt id: copy requests answered with a new count
  viewed,       \* per blog/collection id: detail fetches answered with the document
  ends          \* numbers of flagged prompts that pairs of flagged creates ended with

vars == <<prompts, blogs, collections, staged, hosted, now, nextId, nreq,
          pc, req, resp, loc, fx, copied, viewed, ends>>
stores == <<prompts, blogs, collections>>

Count(f, i) == IF i \in DOMAIN f THEN f[i] ELSE 0
Bump(f, i) == [j \in DOMAIN f \cup {i} |-> Count(f, j) + (IF j = i THEN 1 ELSE 0)]

NoReq == [kind |-> "none"]
NoResp == [status |-> 0, msg |-> "none"]
NoLoc == [set |-> FALSE]

Init ==
  /\ prompts = {} /\ blogs = {} /\ collections = {}
  /\ staged = {} /\ hosted = 0
  /\ now = 1 /\ nextId = 1 /\ nreq = 0
  /\ pc = [r \in Slots |-> "idle"]
  /\ req = [r \in Slots |-> NoReq]
  /\ resp = [r \in Slots |-> NoResp]
  /\ loc = [r \in Slots |-> NoLoc]
  /\ fx = [r \in Slots |-> {}]
  /\ copied = <<>> /\ viewed = <<>> /\ ends = {}

\* what this step changed, added to the request's record of its own effects
Track(r) ==
  fx' = [fx EXCEPT ![r] =
           (IF pc[r] \in {"idle", "done"} THEN {} ELSE @)
           \cup (IF stores' /= stores THEN {"doc"} ELSE {})
           \cup (IF staged' /= staged THEN {"file"} ELSE {})
           \cup (IF hosted' /= hosted THEN {"host"} ELSE {})]

\* res.status(status).json(...) ends the request
Respond(r, response) ==
  /\ resp' = [resp EXCEPT ![r] = response]
  /\ pc' = [pc EXCEPT ![r] = "done"]

Goto(r, label) ==
  /\ pc' = [pc EXCEPT ![r] = label]
  /\ UNCHANGED resp

\* Date.now(): the clock never runs backwards, and two readings may agree
ClockReadings == IF now < MaxClock THEN {now, now + 1} ELSE {}

AdminKinds == {"createPrompt", "deletePrompt", "createBlog", "deleteBlog",
               "createCollection", "deleteCollection"}
CreateKinds == {"createPrompt", "createBlog", "createCollection"}

\* the first await of each route's handler (for a create: multer's parse)
FirstPc(kind) ==
  CASE kind \in CreateKinds -> "parse"
    [] kind = "deletePrompt" -> "find"
    [] kind = "getPrompt" -> "find"
    [] kind = "copyPrompt" -> "inc"
    [] kind = "promptOfDay" -> "flagged"
    [] kind \in {"getBlog", "getCollection"} -> "findSlug"
    [] kind \in {"deleteBlog", "deleteCollection"} -> "del"

GateOpen(q) == TRUE
\* verifyAdmin, mounted first on the six admin routes
GatePasses(q) == q.kind \notin AdminKinds \/ IsValidKey(q.key)

Free(r) == pc[r] \in {"idle", "done"}

\* A request arrives (in the first free slot); an admin route runs verifyAdmin
\* at once.
Arrive(r, q) ==
  /\ Free(r) /\ \A o \in Slots : Free(o) => r <= o
  /\ req' = [req EXCEPT ![r] = [q EXCEPT !.n = nreq + 1]]
  /\ nreq' = nreq + 1
  /\ loc' = [loc EXCEPT ![r] = NoLoc]
  /\ IF GatePasses(q)
       THEN /\ pc' = [pc EXCEPT ![r] = FirstPc(q.kind)]
            /\ resp' = [resp EXCEPT ![r] = NoResp]
       ELSE Respond(r, [status |-> 403, msg |-> "Unauthorized"])
  /\ UNCHANGED <<prompts, blogs, collections, staged, hosted, now, nextId, copied, viewed, ends>>
  /\ Track(r)

\* ------------------------------------------------------------------------
\* Multer: the file filter.  A regular expression without anchors matches
\* anywhere in the string; a string here is a sequence of atoms, and the
\* expression matches when one of its alternatives is an atom of it.
\* ------------------------------------------------------------------------
NoFile == [present |-> FALSE]
File(mimetype, originalname) ==
  [present |-> TRUE, mimetype |-> mimetype, originalname |-> originalname]

AllowedTypes == {"jpeg", "jpg", "png", "gif", "webp", "mp4", "mov"}
RegexTest(s) == \E i \in 1..Len(s) : s[i] \in AllowedTypes

LowerAtom(a) == CASE a = "PNG" -> "png" [] a = "JPG" -> "jpg" [] OTHER -> a

\* path.extname: from the last dot of the name, a dot that starts the name apart
ExtName(name) ==
  LET dots == {i \in 2..Len(name) : name[i] = "."} IN
  IF dots = {} THEN <<>>
  ELSE LET last == CHOOSE i \in dots : \A j \in dots : j <= i
       IN  SubSeq(name, last, Len(name))

\* fileFilter of upload
FileFilter(file) ==
  /\ RegexTest(file.mimetype)
  /\ RegexTest([i \in 1..Len(ExtName(file.originalname)) |->
                  LowerAtom(ExtName(file.originalname)[i])])

\* ------------------------------------------------------------------------
\* The create handlers, up to the asset-host upload
\* ------------------------------------------------------------------------
Required(kind) ==
  CASE kind = "createPrompt" -> PromptRequired
    [] kind = "createBlog" -> BlogRequired
    [] kind = "createCollection" -> CollectionRequired

FileRequiredMsg(kind) == IF kind = "createPrompt" THEN "NoFileUploaded" ELSE "CoverImageRequired"

\* upload.single(...) parses the multipart body and stages the file, then the
\* handler runs to its first await: validateInput, the check of req.file, and
\* the call of uploadToCloudinary.
CreateParse(r) ==
  /\ pc[r] = "parse"
  /\ LET q == req[r]
         v == validateInput(q.body, Required(q.kind))
     IN  IF q.file.present /\ ~FileFilter(q.file)
           THEN /\ Respond(r, [status |-> 500, msg |-> "OnlyImageAndVideo"])
                /\ UNCHANGED staged
           ELSE /\ staged' = IF q.file.present THEN staged \cup {q.n} ELSE staged
                /\ IF v.threw
                     THEN Respond(r, [status |-> 500, msg |-> "ServerError"])
                     ELSE IF v.errors /= <<>>
                     THEN Respond(r, [status |-> 400, msg |-> "ValidationFailed",
                                      errors |-> v.errors])
                     ELSE IF ~q.file.present
                     THEN Respond(r, [status |-> 400, msg |-> FileRequiredMsg(q.kind)])
                     ELSE Goto(r, "cloud")
  /\ UNCHANGED <<prompts, blogs, collections, hosted, now, nextId, nreq, req, loc,
                 copied, viewed, ends>>
  /\ Track(r)

\* x?.trim() of an optional field throws on a value that is no string
OptionalThrows(body, field) == Get(body, field).t = "array"
\* x?.trim() || ''
OptionalTrim(body, field) ==
  IF Get(body, field).t = "string" THEN Trim(body[field].s) ELSE <<>>

IsTrue(body, field) == Get(body, field) = Str(<<"true">>)

\* The code between the upload and the next await throws (caught: 500).
AfterCloudThrows(q) ==
  CASE q.kind = "createPrompt" ->
         OptionalThrows(q.body, "description") \/ OptionalThrows(q.body, "negativePrompt")
    [] q.kind = "createBlog" ->
         OptionalThrows(q.body, "slug") \/ OptionalThrows(q.body, "author")
    [] q.kind = "createCollection" -> OptionalThrows(q.body, "slug")

NewPromptUnflagged(body, t) ==
  [title |-> Trim(body.title.s),
   description |-> OptionalTrim(body, "description"),
   mediaType |-> IF Falsy(Get(body, "mediaType")) THEN Str(<<"image">>)
                 ELSE Get(body, "mediaType"),
   isTrending |-> IsTrue(body, "isTrending"),
   isPromptOfDay |-> FALSE,
   copyCount |-> 0,
   createdAt |-> t]
\* new Prompt(sanitizedData): createdAt defaults to Date.now()
NewPrompt(body, t) ==
  [title |-> Trim(body.title.s),
   description |-> OptionalTrim(body, "description"),
   mediaType |-> IF Falsy(Get(body, "mediaType")) THEN Str(<<"image">>)
                 ELSE Get(body, "mediaType"),
   isTrending |-> IsTrue(body, "isTrending"),
   isPromptOfDay |-> IsTrue(body, "isPromptOfDay"),
   copyCount |-> 0,
   createdAt |-> t]

\* new Blog({...}) / new Collection({...}); the Collection schema trims and
\* lower-cases the slug it is given
NewBlog(body) ==
  [title |-> Trim(body.title.s), slug |-> HandlerSlug(body), views |-> 0]
NewCollection(body) ==
  [title |-> Trim(body.title.s),
   slug |-> Trim(ToLowerCase(HandlerSlug(body))),
   description |-> Trim(body.description.s),
   views |-> 0]

\* The callback of cloudinary.uploader.upload: on an error the promise rejects
\* (caught: 500) and the staged file stays; on success the staged file is
\* unlinked and the handler runs to its next await.
CreateCloud(r) ==
  /\ pc[r] = "cloud"
  /\ LET q == req[r] IN
     \/ /\ Respond(r, [status |-> 500, msg |-> "ServerError"])
        /\ UNCHANGED <<staged, hosted, now, loc>>
     \/ /\ hosted' = hosted + 1
        /\ staged' = staged \ {q.n}
        /\ IF AfterCloudThrows(q)
             THEN /\ Respond(r, [status |-> 500, msg |-> "ServerError"])
                  /\ UNCHANGED <<now, loc>>
             ELSE IF q.kind = "createPrompt" /\ IsTrue(q.body, "isPromptOfDay")
             THEN /\ Goto(r, "clear")
                  /\ UNCHANGED <<now, loc>>
             ELSE IF q.kind = "createPrompt"
             THEN /\ \E t \in ClockReadings :
                       /\ now' = t
                       /\ loc' = [loc EXCEPT ![r] = [doc |-> NewPrompt(q.body, t)]]
                  /\ Goto(r, "save")
             ELSE IF q.kind = "createBlog"
             THEN /\ loc' = [loc EXCEPT ![r] = [doc |-> NewBlog(q.body)]]
                  /\ Goto(r, "save")
                  /\ UNCHANGED now
             ELSE /\ loc' = [loc EXCEPT ![r] = [doc |-> NewCollection(q.body)]]
                  /\ Goto(r, "presave")
                  /\ UNCHANGED now
  /\ UNCHANGED <<prompts, blogs, collections, nextId, nreq, req, copied, viewed, ends>>
  /\ Track(r)

\* ------------------------------------------------------------------------
\* Prompt: clear the flag, validate, insert
\* ------------------------------------------------------------------------
ClearNothing(ps) == ps
\* Prompt.updateMany({}, { $set: { isPromptOfDay: false } })
ClearAll(ps) == {[p EXCEPT !.isPromptOfDay = FALSE] : p \in ps}

Flagged(ps) == {p \in ps : p.isPromptOfDay}

\* The updateMany is applied; the handler then constructs the document and
\* calls save().
PromptClear(r) ==
  /\ pc[r] = "clear"
  /\ prompts' = ClearAll(prompts)
  /\ \E t \in ClockReadings :
       /\ now' = t
       /\ loc' = [loc EXCEPT ![r] = [doc |-> NewPrompt(req[r].body, t),
                                    modified |-> Cardinality(Flagged(prompts))]]
  /\ Goto(r, "save")
  /\ UNCHANGED <<blogs, collections, staged, hosted, nextId, nreq, req, copied, viewed, ends>>
  /\ Track(r)

MediaTypes == {Str(<<"image">>), Str(<<"video">>)}

\* promptSchema's validators: the required strings must not be empty (title,
\* promptText, aiModel, industry and topic are not, after validateInput) and
\* mediaType must be one of the enum
PromptValid(doc) == doc.description /= <<>> /\ doc.mediaType \in MediaTypes

\* save(): validation, then the insert; a failure is caught (500).
PromptSave(r) ==
  /\ pc[r] = "save" /\ req[r].kind = "createPrompt"
  /\ IF PromptValid(loc[r].doc)
       THEN /\ prompts' = prompts \cup {loc[r].doc @@ [id |-> nextId]}
            /\ nextId' = nextId + 1
            /\ Respond(r, [status |-> 201, msg |-> "PromptCreated", id |-> nextId])
       ELSE /\ Respond(r, [status |-> 500, msg |-> "ServerError"])
            /\ UNCHANGED <<prompts, nextId>>
  /\ UNCHANGED <<blogs, collections, staged, hosted, now, nreq, req, loc, copied, viewed, ends>>
  /\ Track(r)

\* findById / findByIdAndUpdate / findByIdAndDelete of a string that is no
\* ObjectId reject with a CastError
Malformed(id) == id < 0

ById(docs, id) == {d \in docs : d.id = id}

\* DELETE /api/prompts/:id, first await: findById
PromptDeleteFind(r) ==
  /\ pc[r] = "find" /\ req[r].kind = "deletePrompt"
  /\ IF Malformed(req[r].id)
       THEN Respond(r, [status |-> 500, msg |-> "InternalServerError"])
       ELSE IF ById(prompts, req[r].id) = {}
       THEN Respond(r, [status |-> 404, msg |-> "PromptNotFound"])
       ELSE Goto(r, "del")
  /\ UNCHANGED <<prompts, blogs, collections, staged, hosted, now, nextId, nreq, req,
                 loc, copied, viewed, ends>>
  /\ Track(r)

\* second await: findByIdAndDelete
PromptDelete(r) ==
  /\ pc[r] = "del" /\ req[r].kind = "deletePrompt"
  /\ prompts' = prompts \ ById(prompts, req[r].id)
  /\ Respond(r, [status |-> 200, msg |-> "Deleted"])
  /\ UNCHANGED <<blogs, collections, staged, hosted, now, nextId, nreq, req, loc,
                 copied, viewed, ends>>
  /\ Track(r)

\* GET /api/prompts/:id
PromptGet(r) ==
  /\ pc[r] = "find" /\ req[r].kind = "getPrompt"
  /\ IF Malformed(req[r].id)
       THEN Respond(r, [status |-> 500, msg |-> "InternalServerError"])
       ELSE IF ById(prompts, req[r].id) = {}
       THEN Respond(r, [status |-> 404, msg |-> "PromptNotFound"])
       ELSE \E p \in ById(prompts, req[r].id) :
              Respond(r, [status |-> 200, msg |-> "Prompt", prompt |-> p])
  /\ UNCHANGED <<prompts, blogs, collections, staged, hosted, now, nextId, nreq, req,
                 loc, copied, viewed, ends>>
  /\ Track(r)

SetCopyCount(p) == [p EXCEPT !.copyCount = 1]
\* { $inc: { copyCount: 1 } }, applied by the store to the document as it is
IncCopyCount(p) == [p EXCEPT !.copyCount = @ + 1]

\* POST /api/prompts/:id/copy: findByIdAndUpdate returns the updated document,
\* or null when no document has the id; result.copyCount of null throws (500).
PromptCopy(r) ==
  /\ pc[r] = "inc"
  /\ IF Malformed(req[r].id) \/ ById(prompts, req[r].id) = {}
       THEN /\ Respond(r, [status |-> 500, msg |-> "InternalServerError"])
            /\ UNCHANGED <<prompts, copied>>
       ELSE \E p \in ById(prompts, req[r].id) :
              LET after == IncCopyCount(p) IN
              /\ prompts' = (prompts \ {p}) \cup {after}
              /\ copied' = Bump(copied, p.id)
              /\ Respond(r, [status |-> 200, msg |-> "CopyCountIncremented",
                             newCount |-> after.copyCount])
  /\ UNCHANGED <<blogs, collections, staged, hosted, now, nextId, nreq, req, loc, viewed, ends>>
  /\ Track(r)

\* ------------------------------------------------------------------------
\* Prompt of the day: three queries, each its own await
\* ------------------------------------------------------------------------
Oldest(ps) == {p \in ps : \A o \in ps : o.createdAt >= p.createdAt}
\* .sort({ createdAt: -1 }) then the first: a document no other is newer than
Newest(ps) == {p \in ps : \A o \in ps : o.createdAt <= p.createdAt}

Trending(ps) == {p \in ps : p.isTrending}

\* Prompt.findOne({ isPromptOfDay: true })
PotdFlagged(r) ==
  /\ pc[r] = "flagged"
  /\ IF Flagged(prompts) /= {}
       THEN \E p \in Flagged(prompts) :
              Respond(r, [status |-> 200, msg |-> "Prompt", prompt |-> p])
       ELSE Goto(r, "trending")
  /\ UNCHANGED <<prompts, blogs, collections, staged, hosted, now, nextId, nreq, req,
                 loc, copied, viewed, ends>>
  /\ Track(r)

\* Prompt.findOne({ isTrending: true }).sort({ createdAt: -1 })
PotdTrending(r) ==
  /\ pc[r] = "trending"
  /\ IF Trending(prompts) /= {}
       THEN \E p \in Newest(Trending(prompts)) :
              Respond(r, [status |-> 200, msg |-> "Prompt", prompt |-> p])
       ELSE Goto(r, "any")
  /\ UNCHANGED <<prompts, blogs, collections, staged, hosted, now, nextId, nreq, req,
                 loc, copied, viewed, ends>>
  /\ Track(r)

\* Prompt.findOne().sort({ createdAt: -1 }), then res.json(prompt || {message})
PotdAny(r) ==
  /\ pc[r] = "any"
  /\ IF prompts /= {}
       THEN \E p \in Newest(prompts) :
              Respond(r, [status |-> 200, msg |-> "Prompt", prompt |-> p])
       ELSE Respond(r, [status |-> 200, msg |-> "NoPromptsAvailable"])
  /\ UNCHANGED <<prompts, blogs, collections, staged, hosted, now, nextId, nreq, req,
                 loc, copied, viewed, ends>>
  /\ Track(r)

\* ------------------------------------------------------------------------
\* Blogs and collections
\* ------------------------------------------------------------------------
BlogKinds == {"getBlog", "createBlog", "deleteBlog"}

\* the model a route works on
Docs(kind) == IF kind \in BlogKinds THEN blogs ELSE collections
SetDocs(kind, ds) ==
  IF kind \in BlogKinds THEN blogs' = ds /\ UNCHANGED collections
  ELSE collections' = ds /\ UNCHANGED blogs

BySlug(docs, slug) == {d \in docs : d.slug = slug}

NotFoundMsg(kind) == IF kind \in BlogKinds THEN "BlogNotFound" ELSE "CollectionNotFound"

\* GET /api/blogs/:slug and /api/collections/:slug, first await: findOne
DetailFind(r) ==
  /\ pc[r] = "findSlug"
  /\ IF BySlug(Docs(req[r].kind), req[r].slug) = {}
       THEN /\ Respond(r, [status |-> 404, msg |-> NotFoundMsg(req[r].kind)])
            /\ UNCHANGED loc
       ELSE \E d \in BySlug(Docs(req[r].kind), req[r].slug) :
              /\ loc' = [loc EXCEPT ![r] = [doc |-> d]]
              /\ Goto(r, "incViews")
  /\ UNCHANGED <<prompts, blogs, collections, staged, hosted, now, nextId, nreq, req,
                 copied, viewed, ends>>
  /\ Track(r)

ViewsFromSnapshot(d, found) == [d EXCEPT !.views = found.views + 1]
\* findByIdAndUpdate(found._id, { $inc: { views: 1 } }): the store adds one to
\* the document as it is now
IncViews(d, found) == [d EXCEPT !.views = @ + 1]

\* second await: the increment; the response is the document read before it
DetailIncrement(r) ==
  /\ pc[r] = "incViews"
  /\ LET found == loc[r].doc
         docs == Docs(req[r].kind)
     IN  /\ SetDocs(req[r].kind,
                    {IF d.id = found.id THEN IncViews(d, found) ELSE d : d \in docs})
         /\ viewed' = Bump(viewed, found.id)
         /\ Respond(r, [status |-> 200, msg |-> "Document", doc |-> found])
  /\ UNCHANGED <<prompts, staged, hosted, now, nextId, nreq, req, loc, copied, ends>>
  /\ Track(r)

IndexAdmitsAll(docs, slug) == TRUE
\* the unique index on slug: an insert is admitted when no stored document of
\* the model has the slug
IndexAdmits(docs, slug) == BySlug(docs, slug) = {}

\* blogSchema: slug is unique; every required string is non-empty after the
\* handler's validation.  save(): the insert, rejected on a duplicate slug.
BlogSave(r) ==
  /\ pc[r] = "save" /\ req[r].kind = "createBlog"
  /\ IF IndexAdmits(blogs, loc[r].doc.slug)
       THEN /\ blogs' = blogs \cup {loc[r].doc @@ [id |-> nextId]}
            /\ nextId' = nextId + 1
            /\ Respond(r, [status |-> 201, msg |-> "BlogCreated", id |-> nextId])
       ELSE /\ Respond(r, [status |-> 500, msg |-> "DuplicateKey"])
            /\ UNCHANGED <<blogs, nextId>>
  /\ UNCHANGED <<prompts, collections, staged, hosted, now, nreq, req, loc, copied, viewed, ends>>
  /\ Track(r)

TitleMinLength == 3
TitleMaxLength == 100
DescriptionMinLength == 10
DescriptionMaxLength == 1000

\* collectionSchema's validators, run by save() before the pre-save hook
CollectionValid(doc) ==
  /\ Len(doc.title) >= TitleMinLength /\ Len(doc.title) <= TitleMaxLength
  /\ Len(doc.description) >= DescriptionMinLength
  /\ Len(doc.description) <= DescriptionMaxLength
  /\ doc.slug /= <<>>

SuffixNever(slug, taken, t) == slug
\* the pre-save hook's unique-slug step: `${this.slug}-${Date.now()}`
SuffixIfTaken(slug, taken, t) ==
  IF taken THEN slug \o <<"-">> \o NumToString(t) ELSE slug

\* save(), up to the insert: validation, then the pre-save hook, which derives
\* the slug from the title (a new document's title counts as modified) and
\* awaits findOne({ slug }).
CollectionPreSave(r) ==
  /\ pc[r] = "presave"
  /\ LET doc == loc[r].doc
         slug == Slugify(doc.title)
     IN  IF ~CollectionValid(doc)
           THEN /\ Respond(r, [status |-> 500, msg |-> "ServerError"])
                /\ UNCHANGED <<now, loc>>
           ELSE /\ \E t \in ClockReadings :
                     /\ now' = t
                     /\ loc' = [loc EXCEPT ![r] =
                          [doc |-> [doc EXCEPT !.slug =
                             SuffixIfTaken(slug, BySlug(collections, slug) /= {}, t)]]]
                /\ Goto(r, "insert")
  /\ UNCHANGED <<prompts, blogs, collections, staged, hosted, nextId, nreq, req,
                 copied, viewed, ends>>
  /\ Track(r)

\* the insert, rejected by the unique index on a duplicate slug
CollectionInsert(r) ==
  /\ pc[r] = "insert"
  /\ IF IndexAdmits(collections, loc[r].doc.slug)
       THEN /\ collections' = collections \cup {loc[r].doc @@ [id |-> nextId]}
            /\ nextId' = nextId + 1
            /\ Respond(r, [status |-> 201, msg |-> "CollectionCreated", id |-> nextId])
       ELSE /\ Respond(r, [status |-> 500, msg |-> "DuplicateKey"])
            /\ UNCHANGED <<collections, nextId>>
  /\ UNCHANGED <<prompts, blogs, staged, hosted, now, nreq, req, loc, copied, viewed, ends>>
  /\ Track(r)

\* DELETE /api/blogs/:id and /api/collections/:id: findByIdAndDelete, whose
\* result the handler does not look at
DocDelete(r) ==
  /\ pc[r] = "del" /\ req[r].kind \in {"deleteBlog", "deleteCollection"}
  /\ IF Malformed(req[r].id)
       THEN /\ Respond(r, [status |-> 500, msg |-> "InternalServerError"])
            /\ UNCHANGED <<blogs, collections>>
       ELSE /\ SetDocs(req[r].kind, Docs(req[r].kind) \ ById(Docs(req[r].kind), req[r].id))
            /\ Respond(r, [status |-> 200, msg |-> "Deleted"])
  /\ UNCHANGED <<prompts, staged, hosted, now, nextId, nreq, req, loc, copied, viewed, ends>>
  /\ Track(r)

\* ------------------------------------------------------------------------
\* The requests a behaviour may receive
\* ------------------------------------------------------------------------
GoodKey == Str(AdminSecret)
BadKeys == {Undef, Str(<<>>), Str(<<"k", "e">>), Str(<<"k", "e", "x">>)}

GoodFile == File(<<"image/", "png">>, <<"cat", ".", "PNG">>)
BadFile == File(<<"text/", "plain">>, <<"cat", ".", "png">>)
\* the MIME type is on the list, the extension is not
MimeOnlyFile == File(<<"image/", "png">>, <<"cat", ".", "txt">>)
\* a name without an extension
BareFile == File(<<"image/", "png">>, <<"png">>)
\* an extension that holds a listed one: cat.pngx
LooseFile == File(<<"image/", "png">>, <<"cat", ".", "png", "x">>)

Text == Str(<<"a">>)
True == Str(<<"true">>)

PromptBase ==
  [title |-> Str(<<"a", " ">>), promptText |-> Text, aiModel |-> Text,
   industry |-> Text, topic |-> Text]
PromptPlain == PromptBase @@ [description |-> Text]
PromptFlag == PromptPlain @@ [isPromptOfDay |-> True]
PromptTrend == PromptPlain @@ [isTrending |-> True]
\* no description: passes validateInput, fails the schema's required validator
PromptNoDesc == PromptBase @@ [isPromptOfDay |-> True]
\* a blank title and no topic
PromptBlank ==
  [title |-> Str(<<" ", " ">>), promptText |-> Text, aiModel |-> Text,
   industry |-> Text, description |-> Text]
\* a repeated title field
PromptArr == [PromptPlain EXCEPT !.title = Arr]

Create(kind, key, body, file) ==
  [kind |-> kind, key |-> key, body |-> body, file |-> file, n |-> 0]
ById_(kind, key, id) == [kind |-> kind, key |-> key, id |-> id, n |-> 0]
Public(kind, id) == [kind |-> kind, id |-> id, n |-> 0]
BySlug_(kind, slug) == [kind |-> kind, slug |-> slug, n |-> 0]

\* ids a request may name: every id generated so far, one no document has (0)
\* and a malformed one (-1)
KnownIds == 1..(nextId - 1)
IdParams == {-1, 0} \cup KnownIds

BlogBase ==
  [title |-> Str(<<"A", " ", "b">>), excerpt |-> Text, content |-> Text,
   category |-> Text]
\* the same slug, given in the body
BlogSlug == [BlogBase EXCEPT !.title = Str(<<"b">>)] @@ [slug |-> Str(<<" ", "a", "-", "b">>)]
BlogBlank == [BlogBase EXCEPT !.content = Str(<<" ">>)]

LongText == Str(<<"a", "a", "a", "a", "a", "a", "a", "a", "a", "a">>)
CollectionBase ==
  [title |-> Str(<<"A", " ", "b", "!">>), description |-> LongText, category |-> Text]
\* another title that the hook turns into the same slug
CollectionAlike == [CollectionBase EXCEPT !.title = Str(<<"a", "-", "-", "b">>)]
\* a title shorter than the schema's minimum
CollectionShort == [CollectionBase EXCEPT !.title = Str(<<"a", "b">>)]
CollectionBlank == [title |-> Str(<<"A", " ", "b", "!">>), category |-> Text]

Slug_ab == <<"a", "-", "b">>
SlugParams == {Slug_ab, <<"z">>}

\* the whole server: every route, every kind of key, body and file
PromptCreates ==
  {Create("createPrompt", GoodKey, b, GoodFile) :
     b \in {PromptFlag, PromptNoDesc, PromptBlank, PromptArr}}
  \cup {Create("createPrompt", GoodKey, PromptFlag, f) : f \in {NoFile, BadFile}}
  \cup {Create("createPrompt", GoodKey, PromptBlank, NoFile)}
  \cup {Create("createPrompt", k, PromptFlag, GoodFile) : k \in BadKeys}
BlogCreates ==
  {Create("createBlog", GoodKey, b, GoodFile) : b \in {BlogBase, BlogSlug, BlogBlank}}
  \cup {Create("createBlog", GoodKey, BlogBase, f) : f \in {NoFile, BadFile}}
  \cup {Create("createBlog", k, BlogBase, GoodFile) : k \in BadKeys}
CollectionCreates ==
  {Create("createCollection", GoodKey, b, GoodFile) :
     b \in {CollectionBase, CollectionShort, CollectionBlank}}
  \cup {Create("createCollection", GoodKey, CollectionBase, f) : f \in {NoFile, BadFile}}
  \cup {Create("createCollection", k, CollectionBase, GoodFile) : k \in BadKeys}
Deletes ==
  {ById_(kind, GoodKey, i) :
     kind \in {"deletePrompt", "deleteBlog", "deleteCollection"}, i \in IdParams}
  \cup {ById_(kind, k, i) :
     kind \in {"deletePrompt", "deleteBlog", "deleteCollection"},
     k \in BadKeys, i \in {0} \cup KnownIds}
Reads ==
  {Public(kind, i) : kind \in {"copyPrompt", "getPrompt"}, i \in IdParams}
  \cup {[kind |-> "promptOfDay", n |-> 0]}
  \cup {BySlug_(kind, sl) : kind \in {"getBlog", "getCollection"}, sl \in SlugParams}

Requests == PromptCreates \cup BlogCreates \cup CollectionCreates \cup Deletes \cup Reads

Steps(r) ==
  \/ CreateParse(r) \/ CreateCloud(r) \/ PromptClear(r) \/ PromptSave(r)
  \/ PromptDeleteFind(r) \/ PromptDelete(r) \/ PromptGet(r) \/ PromptCopy(r)
  \/ PotdFlagged(r) \/ PotdTrending(r) \/ PotdAny(r)
  \/ DetailFind(r) \/ DetailIncrement(r) \/ BlogSave(r)
  \/ CollectionPreSave(r) \/ CollectionInsert(r) \/ DocDelete(r)

Receive(r, requests, budget) == nreq < budget /\ \E q \in requests : Arrive(r, q)

Next == \E r \in Slots : Receive(r, Requests, MaxReqs) \/ Steps(r)

Spec == Init /\ [][Next]_vars

\* ------------------------------------------------------------------------
\* The routes that write prompts, authorized, two requests in flight
\* ------------------------------------------------------------------------
PromptWrites ==
  {Create("createPrompt", GoodKey, b, GoodFile) :
     b \in {PromptFlag, PromptTrend, PromptNoDesc}}
  \cup {ById_("deletePrompt", GoodKey, i) : i \in KnownIds}
  \cup {Public("copyPrompt", i) : i \in {0} \cup KnownIds}

PromptWriteSteps(r) ==
  \/ CreateParse(r) \/ CreateCloud(r) \/ PromptClear(r) \/ PromptSave(r)
  \/ PromptDeleteFind(r) \/ PromptDelete(r) \/ PromptCopy(r)

PromptNext ==
  \E r \in Slots : Receive(r, PromptWrites, MaxEntityReqs) \/ PromptWriteSteps(r)

PromptSpec == Init /\ [][PromptNext]_vars

\* The prompt routes, one request completing before the next starts
PromptRequests ==
  PromptWrites
  \cup {Create("createPrompt", GoodKey, PromptPlain, GoodFile)}
  \cup {Public("getPrompt", i) : i \in {0} \cup KnownIds}
  \cup {[kind |-> "promptOfDay", n |-> 0]}

PromptSteps(r) ==
  \/ PromptWriteSteps(r) \/ PromptGet(r)
  \/ PotdFlagged(r) \/ PotdTrending(r) \/ PotdAny(r)

Quiet == \A r \in Slots : Free(r)

PromptSeqNext ==
  \E r \in Slots : (Quiet /\ Receive(r, PromptRequests, MaxSeqReqs)) \/ PromptSteps(r)

PromptSeqSpec == Init /\ [][PromptSeqNext]_vars

\* ------------------------------------------------------------------------
\* Pairs of create-prompt requests that both set isPromptOfDay: the two
\* arrive while both slots are empty or the other is in flight, they
\* interleave freely, and when both have been answered the pair ends.
\* ------------------------------------------------------------------------
RaceRequests ==
  {Create("createPrompt", GoodKey, b, GoodFile) : b \in {PromptFlag, PromptNoDesc}}

RaceSteps(r) == CreateParse(r) \/ CreateCloud(r) \/ PromptClear(r) \/ PromptSave(r)

PairDone == \A r \in Slots : pc[r] = "done"

PairEnd ==
  /\ PairDone
  /\ ends' = ends \cup {Cardinality(Flagged(prompts))}
  /\ pc' = [r \in Slots |-> "idle"]
  /\ UNCHANGED <<prompts, blogs, collections, staged, hosted, now, nextId, nreq,
                 req, resp, loc, fx, copied, viewed>>

RaceNext ==
  \/ \E r \in Slots :
       \/ pc[r] = "idle" /\ ~PairDone /\ Receive(r, RaceRequests, MaxRaceReqs)
       \/ RaceSteps(r)
  \/ PairEnd

RaceSpec == Init /\ [][RaceNext]_vars

\* ------------------------------------------------------------------------
\* The blog and collection routes alone, authorized, two requests in flight
\* ------------------------------------------------------------------------
DocRequests ==
  {Create("createBlog", GoodKey, b, GoodFile) : b \in {BlogBase, BlogSlug}}
  \cup {Create("createCollection", GoodKey, b, GoodFile) :
          b \in {CollectionBase, CollectionAlike}}
  \cup {BySlug_(kind, sl) : kind \in {"getBlog", "getCollection"}, sl \in SlugParams}
  \cup {ById_(kind, GoodKey, i) : kind \in {"deleteBlog", "deleteCollection"}, i \in KnownIds}

DocSteps(r) ==
  \/ CreateParse(r) \/ CreateCloud(r) \/ BlogSave(r)
  \/ CollectionPreSave(r) \/ CollectionInsert(r)
  \/ DetailFind(r) \/ DetailIncrement(r) \/ DocDelete(r)

DocNext == \E r \in Slots : Receive(r, DocRequests, MaxEntityReqs) \/ DocSteps(r)

DocSpec == Init /\ [][DocNext]_vars

\* collections created one after another from titles with the same slug
CollectionSeqRequests ==
  {Create("createCollection", GoodKey, b, GoodFile) :
     b \in {CollectionBase, CollectionAlike}}

CollectionSeqSteps(r) ==
  CreateParse(r) \/ CreateCloud(r) \/ CollectionPreSave(r) \/ CollectionInsert(r)

CollectionSeqNext ==
  \E r \in Slots :
    \/ Quiet /\ Receive(r, CollectionSeqRequests, MaxSeqReqs)
    \/ CollectionSeqSteps(r)

CollectionSeqSpec == Init /\ [][CollectionSeqNext]_vars

\* ------------------------------------------------------------------------
\* One create request per behaviour, its body any combination of values of
\* the route's required fields
\* ------------------------------------------------------------------------
FieldValues == {Str(<<>>), Str(<<" ">>), Str(<<" ", "a", " ">>), Arr}

RECURSIVE SeqToSet(_)
SeqToSet(s) == IF s = <<>> THEN {} ELSE {Head(s)} \cup SeqToSet(Tail(s))

\* every body that carries some of the fields, each with one of the values
Bodies(fields) ==
  UNION {[present -> FieldValues] : present \in SUBSET SeqToSet(fields)}

ValidateRequests(kind) ==
  {Create(kind, GoodKey, b, f) : b \in Bodies(Required(kind)), f \in {GoodFile, NoFile}}

ValidateNext ==
  \E r \in Slots :
    \/ /\ \A o \in Slots : pc[o] = "idle"
       /\ \E kind \in CreateKinds : \E q \in ValidateRequests(kind) : Arrive(r, q)
    \/ CreateParse(r)

ValidateSpec == Init /\ [][ValidateNext]_vars

\* ========================================================================
\* Properties
\* ========================================================================
Unauthorized == [status |-> 403, msg |-> "Unauthorized"]

\* the key is absent (or empty), has another length than the secret, or differs
KeyRejected(k) ==
  k.t = "undefined" \/ Len(k.s) /= Len(AdminSecret) \/ k.s /= AdminSecret

\* C1: a request to one of the six admin routes whose x-admin-key is absent,
\* of the wrong length or different from the secret is answered 403
\* Unauthorized at once, and it changes no document, stages no file and
\* uploads nothing.
C1_GateRejects ==
  \A r \in Slots :
    (req[r].kind \in AdminKinds /\ KeyRejected(req[r].key))
      => pc[r] = "done" /\ resp[r] = Unauthorized /\ fx[r] = {}

\* a rejected delete of a prompt that is stored, which is still stored
C1_Witness ==
  \E r \in Slots :
    /\ req[r].kind = "deletePrompt" /\ KeyRejected(req[r].key)
    /\ ById(prompts, req[r].id) /= {}
    /\ pc[r] = "done" /\ resp[r] = Unauthorized

\* C2: a create request answered with an error has changed no document.
C2_NoPartialPersistence ==
  \A r \in Slots :
    (pc[r] = "done" /\ req[r].kind \in CreateKinds /\ resp[r].status >= 400)
      => "doc" \notin fx[r]

\* C3: served one after another, a successful create with isPromptOfDay=true
\* leaves exactly one prompt flagged, the new one; a prompt flagged before is
\* not any more.
C3_OneFlaggedAfterCreate ==
  \A r \in Slots :
    (/\ pc[r] = "done" /\ req[r].kind = "createPrompt"
     /\ IsTrue(req[r].body, "isPromptOfDay") /\ resp[r].status = 201)
      => /\ Flagged(prompts) = ById(prompts, resp[r].id)
         /\ Cardinality(Flagged(prompts)) = 1

\* prompt A was flagged when the request for B cleared the flags
C3_Witness ==
  \E r \in Slots :
    /\ pc[r] = "done" /\ req[r].kind = "createPrompt"
    /\ IsTrue(req[r].body, "isPromptOfDay") /\ resp[r].status = 201
    /\ loc[r].modified = 1
    /\ \E a \in prompts : a.id /= resp[r].id /\ ~a.isPromptOfDay
    /\ \E b \in prompts : b.id = resp[r].id /\ b.isPromptOfDay

\* C4: at most one stored prompt has isPromptOfDay=true.
C4_AtMostOneFlagged == Cardinality(Flagged(prompts)) <= 1

\* the slots of the pair whose insert succeeded
Inserted == {r \in Slots : resp[r].status = 201}

\* the request in slot r has run its clear-all step
Cleared(r) == "modified" \in DOMAIN loc[r]

IsNewest(p, ps) == p \in ps /\ \A o \in ps : o.createdAt <= p.createdAt

\* C6: the prompt-of-the-day lookup answers with a flagged prompt if there is
\* one, else with a newest trending prompt, else with a newest prompt, else
\* with the no-prompts message, and it changes nothing.
C6_LookupTiers ==
  \A r \in Slots :
    (pc[r] = "done" /\ req[r].kind = "promptOfDay") =>
      /\ fx[r] = {}
      /\ IF Flagged(prompts) /= {}
           THEN resp[r].msg = "Prompt" /\ resp[r].prompt \in Flagged(prompts)
         ELSE IF Trending(prompts) /= {}
           THEN resp[r].msg = "Prompt"
                /\ IsNewest(resp[r].prompt, Trending(prompts))
         ELSE IF prompts /= {}
           THEN resp[r].msg = "Prompt" /\ IsNewest(resp[r].prompt, prompts)
         ELSE resp[r].msg = "NoPromptsAvailable"

\* the trending tier answers, with an older trending and a newer plain prompt
C6_Witness ==
  \E r \in Slots :
    /\ pc[r] = "done" /\ req[r].kind = "promptOfDay"
    /\ resp[r].msg = "Prompt"
    /\ Flagged(prompts) = {}
    /\ resp[r].prompt.isTrending
    /\ \E o \in Trending(prompts) : o.createdAt < resp[r].prompt.createdAt
    /\ \E o \in prompts : ~o.isTrending /\ o.createdAt > resp[r].prompt.createdAt

\* the copy request in slot r answers with the count after its own increment
CopyAnswersOwn(r) ==
  (pc[r] = "inc" /\ pc'[r] = "done" /\ resp'[r].status = 200) =>
    \E p \in ById(prompts, req[r].id) :
      /\ resp'[r].newCount = p.copyCount + 1
      /\ \E q \in ById(prompts', p.id) : q.copyCount = p.copyCount + 1

CopyNeverDecreases ==
  \A p \in prompts : \A q \in ById(prompts', p.id) : q.copyCount >= p.copyCount

\* C7: the copyCount of a stored prompt is the number of copy requests served
\* on its id, each copy request answers with the count after its own
\* increment, and no step lowers a copyCount.
C7_CopyCumulative ==
  /\ [](\A p \in prompts : p.copyCount = Count(copied, p.id))
  /\ [][(\A r \in Slots : CopyAnswersOwn(r)) /\ CopyNeverDecreases]_vars

\* two copy requests in flight together were answered 1 and 2
C7_Witness ==
  /\ \A r \in Slots :
       pc[r] = "done" /\ req[r].kind = "copyPrompt" /\ resp[r].status = 200
  /\ {resp[r].newCount : r \in Slots} = {1, 2}
  /\ \E p \in prompts : p.copyCount = 2 /\ \A r \in Slots : req[r].id = p.id

OneMoreView(docs, id) ==
  {IF d.id = id THEN [d EXCEPT !.views = @ + 1] ELSE d : d \in docs}

\* the detail fetch in slot r adds one view to the document it found and
\* changes nothing else
FetchAddsOneView(r) ==
  (pc[r] = "incViews" /\ pc'[r] = "done") =>
    /\ prompts' = prompts
    /\ IF req[r].kind \in BlogKinds
         THEN blogs' = OneMoreView(blogs, loc[r].doc.id) /\ collections' = collections
         ELSE collections' = OneMoreView(collections, loc[r].doc.id) /\ blogs' = blogs

\* the document a detail fetch reads carries every view counted before it
FetchObservesViews(r) ==
  (pc[r] = "findSlug" /\ pc'[r] = "incViews") =>
    loc'[r].doc.views = Count(viewed, loc'[r].doc.id)

Derived(r) == Slugify(Trim(req[r].body.title.s))

\* the request in slot r is a create-collection that got past the upload
Uploaded(r) ==
  pc[r] = "done" /\ req[r].kind = "createCollection" /\ "host" \in fx[r]

Suffixed(slug, base) ==
  \E t \in 1..MaxClock : slug = base \o <<"-">> \o NumToString(t)

MissingOrEmpty(body, f) ==
  f \notin DOMAIN body \/ (body[f].t = "string" /\ Trim(body[f].s) = <<>>)

Expected(r) ==
  {f \in SeqToSet(Required(req[r].kind)) : MissingOrEmpty(req[r].body, f)}

\* C10: once a create request has been validated, it is answered with the
\* validation error exactly when a required field is missing or empty after
\* trimming, and the answer lists exactly those fields, each once.
C10_ValidationExact ==
  \A r \in Slots :
    (req[r].kind \in CreateKinds /\ pc[r] \notin {"idle", "parse"}) =>
      /\ resp[r].msg = "ValidationFailed" <=> Expected(r) /= {}
      /\ resp[r].msg = "ValidationFailed" =>
           /\ SeqToSet(resp[r].errors) = Expected(r)
           /\ Len(resp[r].errors) = Cardinality(Expected(r))

\* ------------------------------------------------------------------------
\* Authorized, valid creates served one after another, with any file
\* ------------------------------------------------------------------------
Files == {GoodFile, BadFile, MimeOnlyFile, BareFile, LooseFile}

FilterRequests ==
  {Create("createPrompt", GoodKey, PromptFlag, f) : f \in Files}
  \cup {Create("createBlog", GoodKey, BlogBase, f) : f \in Files}
  \cup {Create("createCollection", GoodKey, CollectionBase, f) : f \in Files}

FilterSteps(r) ==
  \/ CreateParse(r) \/ CreateCloud(r) \/ PromptClear(r) \/ PromptSave(r)
  \/ BlogSave(r) \/ CollectionPreSave(r) \/ CollectionInsert(r)

FilterNext ==
  \E r \in Slots :
    \/ Quiet /\ Receive(r, FilterRequests, MaxReqs)
    \/ FilterSteps(r)

FilterSpec == Init /\ [][FilterNext]_vars

\* the MIME type is type/subtype with a subtype of the allow-list
MimeListed(mimetype) == Len(mimetype) = 2 /\ mimetype[2] \in AllowedTypes

\* the extension is a dot and, in any case of letters, a name of the allow-list
ExtListed(originalname) ==
  LET ext == ExtName(originalname) IN
  Len(ext) = 2 /\ LowerAtom(ext[2]) \in AllowedTypes

\* C11: a create request's file is accepted exactly when its MIME type and
\* its extension are both on the allow-list, and a request whose file is
\* rejected uploads nothing and writes no document.
C11_AcceptsIffListed ==
  \A r \in Slots :
    (req[r].kind \in CreateKinds /\ req[r].file.present
       /\ pc[r] \notin {"idle", "parse"}) =>
      /\ resp[r].msg /= "OnlyImageAndVideo"
           <=> (MimeListed(req[r].file.mimetype) /\ ExtListed(req[r].file.originalname))
      /\ resp[r].msg = "OnlyImageAndVideo" => fx[r] = {}

\* C12: an authorized create request that carries no file is answered with
\* the file-required error, whatever the fields of its body are.
C12_FileRequiredFirst ==
  \A r \in Slots :
    (/\ req[r].kind \in CreateKinds /\ GatePasses(req[r])
     /\ ~req[r].file.present /\ pc[r] \notin {"idle", "parse"})
      => /\ pc[r] = "done"
         /\ resp[r] = [status |-> 400, msg |-> FileRequiredMsg(req[r].kind)]

\* ------------------------------------------------------------------------
\* Every route, the requests served one after another
\* ------------------------------------------------------------------------
SerialNext ==
  \E r \in Slots :
    \/ Quiet /\ Receive(r, Requests, MaxReqs)
    \/ Steps(r)

SerialSpec == Init /\ [][SerialNext]_vars

\* the routes addressed by an id or a slug
Addressed == {"getPrompt", "copyPrompt", "deletePrompt", "getBlog", "deleteBlog",
              "getCollection", "deleteCollection"}

\* a stored document has the id or the slug the request names
Matches(q) ==
  CASE q.kind \in {"getBlog", "getCollection"} -> BySlug(Docs(q.kind), q.slug) /= {}
    [] q.kind = "deleteBlog" -> ById(blogs, q.id) /= {}
    [] q.kind = "deleteCollection" -> ById(collections, q.id) /= {}
    [] OTHER -> ById(prompts, q.id) /= {}

\* C13: a request to a route addressed by an id or a slug (a well-formed id
\* here) that changed no document and whose id or slug no stored document
\* has, was answered with a 4xx response.
C13_UnknownIsNotFound ==
  \A r \in Slots :
    (/\ pc[r] = "done" /\ req[r].kind \in Addressed /\ GatePasses(req[r])
     /\ (req[r].kind \notin {"getBlog", "getCollection"} => ~Malformed(req[r].id))
     /\ "doc" \notin fx[r]
     /\ ~Matches(req[r]))
      => resp[r].status \in 400..499

\* the request in slot r is a create of a blog or a collection that has come
\* to its insert and been answered
InsertTried(r) ==
  /\ pc[r] = "done" /\ req[r].kind \in {"createBlog", "createCollection"}
  /\ "doc" \in DOMAIN loc[r]
  /\ resp[r].msg \in {"BlogCreated", "CollectionCreated", "DuplicateKey"}

\* the insert of the create in slot r: when a stored document of the model
\* has its slug, whatever the pre-save check saw before, the request ends in
\* an error and nothing is written; otherwise its document alone is added
InsertRespectsIndex(r) ==
  (/\ req[r].kind \in {"createBlog", "createCollection"}
   /\ pc[r] \in {"save", "insert"} /\ pc'[r] = "done")
    => LET docs == Docs(req[r].kind)
           slug == loc[r].doc.slug
       IN  IF \E d \in docs : d.slug = slug
             THEN /\ resp'[r] = [status |-> 500, msg |-> "DuplicateKey"]
                  /\ stores' = stores
             ELSE /\ resp'[r].status = 201
                  /\ \E d \in Docs(req[r].kind)' :
                       /\ d.slug = slug /\ d.id = resp'[r].id
                       /\ Docs(req[r].kind)' = docs \cup {d}

\* C14: no two stored blogs and no two stored collections have the same
\* slug; a create that comes to its insert with a slug a stored document
\* has, as the second of two that both passed the pre-save check does, ends
\* in an error response and writes no document.
C14_UniqueSlugs ==
  /\ [](\A c, d \in blogs : c.slug = d.slug => c = d)
  /\ [](\A c, d \in collections : c.slug = d.slug => c = d)
  /\ [][\A r \in Slots : InsertRespectsIndex(r)]_vars

\* two collection creates both passed the pre-save check with the derived
\* slug; one was inserted and is stored, the other was rejected
C14_Witness ==
  \E r, o \in Slots :
    /\ r /= o /\ InsertTried(r) /\ InsertTried(o)
    /\ req[r].kind = "createCollection" /\ req[o].kind = "createCollection"
    /\ loc[r].doc.slug = Derived(r) /\ loc[o].doc.slug = Derived(r)
    /\ resp[r].status = 201 /\ resp[o] = [status |-> 500, msg |-> "DuplicateKey"]
    /\ "doc" \notin fx[o]
    /\ collections = ById(collections, resp[r].id) /\ collections /= {}

\* every required field of the request in slot r is a string that is not blank
Validated(r) ==
  /\ Expected(r) = {}
  /\ \A f \in SeqToSet(Required(req[r].kind)) : req[r].body[f].t = "string"

\* a create request is at the asset host, or has been there, only with the
\* right key, valid required fields and a file; it has written documents only
\* after its upload, and its staged file is gone once the upload succeeded
StagesInOrder(r) ==
  req[r].kind \in CreateKinds =>
    /\ (pc[r] = "cloud" \/ "host" \in fx[r]) =>
         /\ ~KeyRejected(req[r].key)
         /\ Validated(r)
         /\ req[r].file.present
    /\ pc[r] = "cloud" => fx[r] = {"file"} /\ req[r].n \in staged
    /\ "doc" \in fx[r] => "host" \in fx[r]
    /\ "host" \in fx[r] => req[r].n \notin staged

\* the step in which the upload of the request in slot r fails: an error
\* response, no document written, the staged file still there
UploadFails(r) ==
  (pc[r] = "cloud" /\ hosted' = hosted) =>
    /\ pc'[r] = "done" /\ resp'[r].status = 500
    /\ stores' = stores
    /\ req[r].n \in staged'

\* the step in which it succeeds: the staged file is deleted
UploadSucceeds(r) ==
  (pc[r] = "cloud" /\ hosted' /= hosted) =>
    /\ hosted' = hosted + 1
    /\ staged' = staged \ {req[r].n}
    /\ stores' = stores

\* C15: in a create request the asset host is contacted only after the gate
\* and the required-field validation have passed, documents are written only
\* after the upload succeeded; a failed upload ends the request with an error,
\* no document and the staged file kept, a successful one deletes the staged
\* file.
C15_StageOrder ==
  /\ [](\A r \in Slots : StagesInOrder(r))
  /\ [][\A r \in Slots :
          (pc'[r] /= pc[r] \/ resp'[r] /= resp[r])
            => UploadFails(r) /\ UploadSucceeds(r)]_vars

\* one create ended in an error at the upload with its file still staged
\* and nothing written, another wrote its document after its upload
C15_Witness ==
  \E r, o \in Slots :
    /\ req[r].kind \in CreateKinds /\ req[o].kind \in CreateKinds
    /\ pc[r] = "done" /\ resp[r].status = 500
    /\ Validated(r) /\ fx[r] = {"file"} /\ req[r].n \in staged
    /\ pc[o] = "done" /\ resp[o].status = 201
    /\ fx[o] = {"file", "host", "doc"} /\ req[o].n \notin staged
====
